---- MODULE Spec2Model ----
(***************************************************************************)
(* Model of the serializers of the Document Registratie Component          *)
(* (src/src/drc/api/serializers.py): the lock protocol of an               *)
(* EnkelvoudigInformatieObject (lock / unlock / update / create) and the   *)
(* indicatie_gebruiksrecht rule against the Gebruiksrechten rows, and the  *)
(* ObjectInformatieObject relations of a document to an external object.   *)
(*                                                                         *)
(* A request is served by a serializer in two or three steps, as the       *)
(* serializer's methods are called one after the other with nothing in     *)
(* the source holding a row lock between them:                             *)
(*   is_valid()  -> the field validators, then validate(), both against    *)
(*                  self.instance, the row as it was read for the request  *)
(*   save()      -> create() / update() / the save() override, which       *)
(*                  writes the whole in-memory instance back               *)
(* The model reads self.instance in the same step as validation, the       *)
(* latest moment the code allows.                                          *)
(***************************************************************************)
EXTENDS Integers, FiniteSets, TLC

\* ------------------------------------------------------------- bounds
NObj == 1
NReq == 2
MaxTokens == 2
MaxRows == 1
MaxOio == 2

Obj == 1..NObj
Req == 1..NReq
Token == 1..MaxTokens

\* ------------------------------------------------------------- values
\* the empty lock '' (a falsy lock); tokens are the positive numbers
NoLock == 0

IndicatieValues == {"True", "False", "None"}
IntegriteitValues == {"None", "sha"}
OndertekeningValues == {"None", "sig"}
VertrouwelijkheidValues == {"openbaar", "geheim"}

\* the lookup of the informatieobjecttype raised
ZtcError == "ztc-error"

\* the serializer has no _informatieobjecttype: no lookup was made
Unset == "unset"

\* Python truthiness of the two values the validators test
Truthy(indicatie) == indicatie = "True"

\* dict.get(key, default) on a validated_data / attrs dict
Get(attrs, key, default) == IF key \in DOMAIN attrs THEN attrs[key] ELSE default

EmptyDict == [k \in {} |-> 0]

VARIABLES
    eio,              \* the EnkelvoudigInformatieObject table: uuid -> row
    oio,              \* the ObjectInformatieObject table: id -> row
    gebruiksrechten,  \* the Gebruiksrechten table: set of <<informatieobject, id>>
    req,              \* the requests in flight, one serializer each
    nextToken,        \* the next value uuid.uuid4() draws
    released,         \* history: per object, the tokens the unlock action cleared
    response          \* history: the answer the last step gave, if it gave one

vars == <<eio, oio, gebruiksrechten, req, nextToken, released, response>>

Idle == [pc |-> "idle"]

\* the answers are recorded only from an initial state that asks for it
Unobserved == [pc |-> "unobserved"]

\* instance.gebruiksrechten_set.exists()
gebruiksrechten_exists(o) == \E g \in gebruiksrechten : g[1] = o

InFlight(op) == {r \in Req : req[r].pc \in {"valid", "inserted"} /\ req[r].op = op}

\* a new request is served by the first serializer slot not in use
Free(r) == req[r].pc = "idle" /\ \A q \in 1..(r - 1) : req[q].pc # "idle"

\* a request and what its serializer holds: the payload (attrs), the context
\* (force_unlock), self.instance as read, and what validation found
Request(op, o, attrs, force_unlock, instance, exists, result) ==
    [pc |-> "done", op |-> op, obj |-> o, attrs |-> attrs,
     force_unlock |-> force_unlock, instance |-> instance, exists |-> exists,
     result |-> result, informatieobjecttype |-> Unset]

\* what the history keeps of a row: its lock
Seen(row) == IF row = EmptyDict THEN EmptyDict ELSE [lock |-> row.lock]

\* the answer to a request: the request with the row it read and the row it
\* wrote, if any
Answered(rec, saved) ==
    [pc |-> "done", op |-> rec.op, obj |-> rec.obj, attrs |-> rec.attrs,
     force_unlock |-> rec.force_unlock, instance |-> Seen(rec.instance),
     exists |-> rec.exists, result |-> rec.result,
     informatieobjecttype |-> rec.informatieobjecttype, saved |-> Seen(saved)]

\* a step that answers no request
Silent == response' = IF response = Unobserved THEN Unobserved ELSE Idle

\* the request goes on to save() ...
Proceed(r, rec) == req' = [req EXCEPT ![r] = rec] /\ Silent

\* ... or is answered: with the ValidationError, or with the saved instance
Answer(r, rec) ==
    /\ req' = [req EXCEPT ![r] = Idle]
    /\ response' = IF response = Unobserved THEN response ELSE rec

\* faulty variant: the errors of validation not raised
IsValid_unraised(r, rec) == Proceed(r, [rec EXCEPT !.pc = "valid"])

\* is_valid(raise_exception=True)
IsValid(r, rec) ==
    IF rec.result = "ok" THEN Proceed(r, [rec EXCEPT !.pc = "valid"])
    ELSE Answer(r, Answered(rec, EmptyDict))

\* ------------------------------------------- EnkelvoudigInformatieObject
\* faulty variant: the create case of the second test forgotten
validate_indicatie_gebruiksrecht_update_only(has_instance, exists, indicatie) ==
    IF has_instance /\ ~Truthy(indicatie) /\ exists
    THEN "existing-gebruiksrechten"
    ELSE IF Truthy(indicatie) /\ has_instance /\ ~exists
    THEN "missing-gebruiksrechten"
    ELSE "ok"

\* faulty variant: the second test dropped
validate_indicatie_gebruiksrecht_no_missing(has_instance, exists, indicatie) ==
    IF has_instance /\ ~Truthy(indicatie) /\ exists
    THEN "existing-gebruiksrechten"
    ELSE "ok"

\* validate_indicatie_gebruiksrecht: the field validator of
\* indicatie_gebruiksrecht, called only when the field is in the payload
validate_indicatie_gebruiksrecht(has_instance, exists, indicatie) ==
    IF has_instance /\ ~Truthy(indicatie) /\ exists
    THEN "existing-gebruiksrechten"
    ELSE IF Truthy(indicatie) /\ (~has_instance \/ ~exists)
    THEN "missing-gebruiksrechten"
    ELSE "ok"

\* faulty variant: any lock passes on a locked document
EIO_validate_any_lock(has_instance, instance_lock, attrs) ==
    LET lock == Get(attrs, "lock", NoLock) IN
    IF has_instance
    THEN IF instance_lock = NoLock THEN "unlocked" ELSE "ok"
    ELSE IF lock # NoLock THEN "lock-in-create"
         ELSE "ok"

\* faulty variant: the test for an unlocked document dropped
EIO_validate_no_unlocked(has_instance, instance_lock, attrs) ==
    LET lock == Get(attrs, "lock", NoLock) IN
    IF has_instance
    THEN IF lock # instance_lock THEN "incorrect-lock-id" ELSE "ok"
    ELSE IF lock # NoLock THEN "lock-in-create"
         ELSE "ok"

\* faulty variant: the create branch dropped
EIO_validate_update_only(has_instance, instance_lock, attrs) ==
    LET lock == Get(attrs, "lock", NoLock) IN
    IF has_instance
    THEN IF instance_lock = NoLock THEN "unlocked"
         ELSE IF lock # instance_lock THEN "incorrect-lock-id"
         ELSE "ok"
    ELSE "ok"

\* validate(): the object-level check of the lock
EIO_validate(has_instance, instance_lock, attrs) ==
    LET lock == Get(attrs, "lock", NoLock) IN
    IF has_instance
    THEN IF instance_lock = NoLock THEN "unlocked"
         ELSE IF lock # instance_lock THEN "incorrect-lock-id"
         ELSE "ok"
    ELSE IF lock # NoLock THEN "lock-in-create"
         ELSE "ok"

\* Serializer.run_validation: the field validators run first and their
\* error is raised before validate() is called
EIO_run_validation(has_instance, instance_lock, exists, attrs) ==
    LET field == IF "indicatie_gebruiksrecht" \in DOMAIN attrs
                 THEN validate_indicatie_gebruiksrecht(
                          has_instance, exists, attrs["indicatie_gebruiksrecht"])
                 ELSE "ok"
    IN IF field # "ok" THEN field
       ELSE EIO_validate(has_instance, instance_lock, attrs)

\* update(): the nested groups are popped with None as default, every other
\* validated attribute is set on the instance, and the instance is saved
EIO_update(instance, validated_data) ==
    [lock |-> Get(validated_data, "lock", instance.lock),
     indicatie_gebruiksrecht |->
         Get(validated_data, "indicatie_gebruiksrecht", instance.indicatie_gebruiksrecht),
     integriteit |-> Get(validated_data, "integriteit", "None"),
     ondertekening |-> Get(validated_data, "ondertekening", "None"),
     vertrouwelijkheidaanduiding |->
         Get(validated_data, "vertrouwelijkheidaanduiding",
             instance.vertrouwelijkheidaanduiding)]

\* create(), first half: the row super().create() inserts, the nested groups
\* popped off and the classification taken from the informatieobjecttype
\* when the payload has none
EIO_create(validated_data, informatieobjecttype) ==
    [lock |-> Get(validated_data, "lock", NoLock),
     indicatie_gebruiksrecht |-> Get(validated_data, "indicatie_gebruiksrecht", "None"),
     integriteit |-> "None",
     ondertekening |-> "None",
     vertrouwelijkheidaanduiding |->
         Get(validated_data, "vertrouwelijkheidaanduiding", informatieobjecttype)]

\* the payloads of a request: the fields validation reads ...
LockAttrs == {EmptyDict} \cup {[lock |-> t] : t \in {NoLock} \cup Token}

IndicatieAttrs ==
    {EmptyDict} \cup {[indicatie_gebruiksrecht |-> i] : i \in IndicatieValues}

EIOAttrs == {l @@ i : l \in LockAttrs, i \in IndicatieAttrs}

\* ... and the fields only create() / update() read
NestedAttrs ==
    {i @@ o @@ v :
        i \in {EmptyDict} \cup {[integriteit |-> x] : x \in IntegriteitValues},
        o \in {EmptyDict} \cup {[ondertekening |-> x] : x \in OndertekeningValues},
        v \in {EmptyDict} \cup
              {[vertrouwelijkheidaanduiding |-> x] : x \in VertrouwelijkheidValues}}

\* PUT / PATCH: is_valid() on a serializer bound to the row
UpdateValidate(r, o, attrs) ==
    /\ Free(r)
    /\ o \in DOMAIN eio
    /\ LET instance == eio[o]
           result == EIO_run_validation(TRUE, instance.lock,
                                        gebruiksrechten_exists(o), attrs)
       IN IsValid(r, Request("update", o, attrs, FALSE, instance,
                             gebruiksrechten_exists(o), result))
    /\ UNCHANGED <<eio, gebruiksrechten, nextToken, released, oio>>

\* PUT / PATCH: save() -> update()
UpdateSave(r, nested) ==
    /\ req[r].pc = "valid"
    /\ req[r].op = "update"
    /\ eio' = [eio EXCEPT ![req[r].obj] =
                  EIO_update(req[r].instance, req[r].attrs @@ nested)]
    /\ Answer(r, Answered(req[r], eio'[req[r].obj]))
    /\ UNCHANGED <<gebruiksrechten, nextToken, released, oio>>

\* POST: is_valid() on a serializer without instance
CreateValidate(r, attrs) ==
    /\ Free(r)
    /\ Cardinality(DOMAIN eio) + Cardinality(InFlight("create")) < NObj
    /\ LET result == EIO_run_validation(FALSE, NoLock, FALSE, attrs)
       IN IsValid(r, Request("create", 0, attrs, FALSE, EmptyDict, FALSE, result))
    /\ UNCHANGED <<eio, gebruiksrechten, nextToken, released, oio>>

\* faulty variant: the lookup made for every create
EIO_get_informatieobjecttype_always(validated_data, ztc) == ztc

\* create(), the call of _get_informatieobjecttype: made only when the payload
\* has no vertrouwelijkheidaanduiding. ztc is what the remote lookup gives: the
\* classification of the informatieobjecttype, or an error
EIO_get_informatieobjecttype(validated_data, ztc) ==
    IF "vertrouwelijkheidaanduiding" \notin DOMAIN validated_data THEN ztc
    ELSE Unset

\* POST: create() up to and including super().create()
CreateInsert(r, nested, ztc) ==
    /\ req[r].pc = "valid"
    /\ req[r].op = "create"
    /\ LET validated_data == req[r].attrs @@ nested
           o == Cardinality(DOMAIN eio) + 1
           informatieobjecttype == EIO_get_informatieobjecttype(validated_data, ztc)
           row == EIO_create(validated_data, informatieobjecttype)
       IN IF informatieobjecttype = ZtcError
          THEN /\ Answer(r, Answered([req[r] EXCEPT !.result = ZtcError], EmptyDict))
               /\ UNCHANGED eio
          ELSE /\ eio' = eio @@ (o :> row)
               /\ Proceed(r, [req[r] EXCEPT !.pc = "inserted", !.obj = o,
                                               !.attrs = validated_data,
                                               !.instance = row,
                                               !.informatieobjecttype =
                                                   informatieobjecttype])
    /\ UNCHANGED <<gebruiksrechten, nextToken, released, oio>>

\* POST: the rest of create(): the nested groups are set and eio.save()
CreateSave(r) ==
    /\ req[r].pc = "inserted"
    /\ LET saved == [req[r].instance EXCEPT
                        !.integriteit = Get(req[r].attrs, "integriteit", "None"),
                        !.ondertekening = Get(req[r].attrs, "ondertekening", "None")]
       IN /\ eio' = [eio EXCEPT ![req[r].obj] = saved]
          /\ Answer(r, Answered(req[r], saved))
    /\ UNCHANGED <<gebruiksrechten, nextToken, released, oio>>

\* ------------------------------------------------------------ lock
Lock_validate(instance_lock) ==
    IF instance_lock # NoLock THEN "existing-lock" ELSE "ok"

\* uuid.uuid4().hex: a value no earlier call returned
uuid4 == nextToken

\* the tokens drawn so far
Issued == 1..(nextToken - 1)

Lock_save(instance, token) == [instance EXCEPT !.lock = token]

LockValidate(r, o) ==
    /\ Free(r)
    /\ o \in DOMAIN eio
    /\ nextToken + Cardinality(InFlight("lock")) <= MaxTokens
    /\ LET instance == eio[o]
           result == Lock_validate(instance.lock)
       IN IsValid(r, Request("lock", o, EmptyDict, FALSE, instance,
                             gebruiksrechten_exists(o), result))
    /\ UNCHANGED <<eio, gebruiksrechten, nextToken, released, oio>>

LockSave(r) ==
    /\ req[r].pc = "valid"
    /\ req[r].op = "lock"
    /\ LET o == req[r].obj
           saved == Lock_save(req[r].instance, uuid4)
       IN /\ eio' = [eio EXCEPT ![o] = saved]
          /\ Answer(r, Answered(req[r], saved))
    /\ nextToken' = nextToken + 1
    /\ UNCHANGED <<gebruiksrechten, released, oio>>

\* ---------------------------------------------------------- unlock
\* faulty variant: force_unlock not read from the context
Unlock_validate_unforced(force_unlock, instance_lock, attrs) ==
    IF Get(attrs, "lock", NoLock) # instance_lock THEN "incorrect-lock-id"
    ELSE "ok"

Unlock_validate(force_unlock, instance_lock, attrs) ==
    IF force_unlock THEN "ok"
    ELSE IF Get(attrs, "lock", NoLock) # instance_lock THEN "incorrect-lock-id"
    ELSE "ok"

\* faulty variant: the instance saved as it was read
Unlock_save_unchanged(instance) == instance

Unlock_save(instance) == [instance EXCEPT !.lock = NoLock]

UnlockValidate(r, o, attrs, force_unlock) ==
    /\ Free(r)
    /\ o \in DOMAIN eio
    /\ LET instance == eio[o]
           result == Unlock_validate(force_unlock, instance.lock, attrs)
       IN IsValid(r, Request("unlock", o, attrs, force_unlock, instance,
                             gebruiksrechten_exists(o), result))
    /\ UNCHANGED <<eio, gebruiksrechten, nextToken, released, oio>>

UnlockSave(r) ==
    /\ req[r].pc = "valid"
    /\ req[r].op = "unlock"
    /\ LET o == req[r].obj
           saved == Unlock_save(req[r].instance)
       IN /\ eio' = [eio EXCEPT ![o] = saved]
          /\ Answer(r, Answered(req[r], saved))
          /\ released' = [released EXCEPT ![o] = @ \cup ({eio[o].lock} \ {NoLock})]
    /\ UNCHANGED <<gebruiksrechten, nextToken, oio>>

\* --------------------------------------------------- gebruiksrechten
\* the indicator follows the existence of Gebruiksrechten: creating a row
\* sets it on the informatieobject
Gebruiksrechten_indicatie(row) == [row EXCEPT !.indicatie_gebruiksrecht = "True"]

\* POST of a Gebruiksrechten row for informatieobject o
GebruiksrechtenCreate(o) ==
    /\ o \in DOMAIN eio
    /\ \E id \in 1..MaxRows :
         /\ <<o, id>> \notin gebruiksrechten
         /\ \A k \in 1..(id - 1) : <<o, k>> \in gebruiksrechten
         /\ gebruiksrechten' = gebruiksrechten \cup {<<o, id>>}
    /\ eio' = [eio EXCEPT ![o] = Gebruiksrechten_indicatie(@)]
    /\ Silent
    /\ UNCHANGED <<req, nextToken, released, oio>>

\* ------------------------------------------- objectinformatieobject
\* urls of external objects, their types, and the kinds of relation
Objects == {"zaak-1", "zaak-2"}
ObjectTypes == {"zaak", "besluit"}
AardRelaties == {"hoort_bij", "legt_vast"}

\* Meta.fields: the writable fields of the serializer
OIOFields == {"informatieobject", "object", "object_type"}

\* a payload: any of the fields, and possibly an aard_relatie, which is no
\* field of the serializer
OIOAttrs ==
    {i @@ o @@ t @@ a :
        i \in {EmptyDict} \cup {[informatieobject |-> x] : x \in Obj},
        o \in {EmptyDict} \cup {[object |-> x] : x \in Objects},
        t \in {EmptyDict} \cup {[object_type |-> x] : x \in ObjectTypes},
        a \in {EmptyDict, [aard_relatie |-> "legt_vast"]}}

\* to_internal_value: only the serializer's fields are read from the payload
OIO_to_internal_value(attrs) ==
    [field \in DOMAIN attrs \cap OIOFields |-> attrs[field]]

WijzigenNietToegelaten == "wijzigen-niet-toegelaten"

\* IsImmutableValidator on a field: on an update, a value other than the
\* stored one is an error
IsImmutableValidator(instance, data, field) ==
    IF instance # EmptyDict /\ field \in DOMAIN data /\ data[field] # instance[field]
    THEN {<<field, WijzigenNietToegelaten>>}
    ELSE {}

\* faulty variant: object_type without its validator
OIO_field_errors_object_only(instance, data) ==
    IsImmutableValidator(instance, data, "object")

\* extra_kwargs: the validators of the fields object and object_type
OIO_field_errors(instance, data) ==
    IsImmutableValidator(instance, data, "object")
        \cup IsImmutableValidator(instance, data, "object_type")

\* the unique constraint of the table on (informatieobject, object): another
\* row holds the pair of this one
unique_together(table, id, row) ==
    \E other \in DOMAIN table \ {id} :
        /\ table[other].informatieobject = row.informatieobject
        /\ table[other].object = row.object

\* ModelSerializer.update(): the validated fields set on the instance
OIO_update(instance, data) ==
    [field \in DOMAIN instance |-> Get(data, field, instance[field])]

\* InformatieObjectUniqueValidator('object', 'informatieobject'): another
\* relation of this informatieobject to this object is stored already
InformatieObjectUniqueValidator(table, id, instance, data) ==
    IF instance = EmptyDict THEN unique_together(table, id, data)
    ELSE unique_together(table, id, OIO_update(instance, data))

\* faulty variant: the uniqueness validator left out of Meta.validators
OIO_validators_no_unique(exists, policy_ok) ==
    IF policy_ok THEN {} ELSE {<<"non_field_errors", "invalid-kind">>}

\* Meta.validators: ObjectInformatieObjectValidator, whose verdict is
\* policy_ok, and InformatieObjectUniqueValidator, which found exists
OIO_validators(exists, policy_ok) ==
    (IF policy_ok THEN {} ELSE {<<"non_field_errors", "invalid-kind">>})
        \cup (IF exists THEN {<<"non_field_errors", "unique">>} ELSE {})

\* run_validation: the errors of the fields are raised before the validators
\* of Meta run
OIO_run_validation(instance, data, exists, policy_ok) ==
    IF OIO_field_errors(instance, data) # {}
    THEN OIO_field_errors(instance, data)
    ELSE OIO_validators(exists, policy_ok)

\* a request on a relation and what its serializer holds
OIO_Request(op, id, attrs, instance, exists, errors) ==
    [pc |-> "done", op |-> op, obj |-> id, attrs |-> attrs, instance |-> instance,
     exists |-> exists, result |-> IF errors = {} THEN "ok" ELSE "invalid",
     errors |-> errors]

OIO_Answered(rec, errors, saved) ==
    [pc |-> "done", op |-> rec.op, obj |-> rec.obj, attrs |-> rec.attrs,
     instance |-> rec.instance, exists |-> rec.exists,
     result |-> IF errors = {} THEN "ok" ELSE "invalid",
     errors |-> errors, saved |-> saved]

OIO_IsValid(r, rec) ==
    IF rec.result = "ok" THEN Proceed(r, [rec EXCEPT !.pc = "valid"])
    ELSE Answer(r, OIO_Answered(rec, rec.errors, EmptyDict))

IntegrityError == {<<"database", "IntegrityError">>}

\* POST of a relation: is_valid() on a serializer without instance, with all
\* fields in the payload
OIOCreateValidate(r, attrs, policy_ok) ==
    /\ Free(r)
    /\ OIOFields \subseteq DOMAIN attrs
    /\ attrs.informatieobject \in DOMAIN eio
    /\ Cardinality(DOMAIN oio) + Cardinality(InFlight("oio-create")) < MaxOio
    /\ LET data == OIO_to_internal_value(attrs)
           exists == InformatieObjectUniqueValidator(oio, 0, EmptyDict, data)
           errors == OIO_run_validation(EmptyDict, data, exists, policy_ok)
       IN OIO_IsValid(r, OIO_Request("oio-create", 0, attrs, EmptyDict, exists, errors))
    /\ UNCHANGED <<eio, oio, gebruiksrechten, nextToken, released>>

\* POST of a relation: save() -> ModelSerializer.create(), the insert of the
\* row, with the aard_relatie the model gives it
OIOCreateInsert(r, aard_relatie) ==
    /\ req[r].pc = "valid"
    /\ req[r].op = "oio-create"
    /\ LET id == Cardinality(DOMAIN oio) + 1
           row == OIO_to_internal_value(req[r].attrs)
                      @@ [aard_relatie |-> aard_relatie]
       IN IF unique_together(oio, id, row)
          THEN /\ Answer(r, OIO_Answered(req[r], IntegrityError, EmptyDict))
               /\ UNCHANGED oio
          ELSE /\ oio' = oio @@ (id :> row)
               /\ Answer(r, OIO_Answered(req[r], {}, row))
    /\ UNCHANGED <<eio, gebruiksrechten, nextToken, released>>

\* PUT / PATCH of a relation: is_valid() on a serializer bound to the row
OIOUpdateValidate(r, id, attrs, policy_ok) ==
    /\ Free(r)
    /\ id \in DOMAIN oio
    /\ "informatieobject" \in DOMAIN attrs => attrs.informatieobject \in DOMAIN eio
    /\ LET instance == oio[id]
           data == OIO_to_internal_value(attrs)
           exists == InformatieObjectUniqueValidator(oio, id, instance, data)
           errors == OIO_run_validation(instance, data, exists, policy_ok)
       IN OIO_IsValid(r, OIO_Request("oio-update", id, attrs, instance, exists, errors))
    /\ UNCHANGED <<eio, oio, gebruiksrechten, nextToken, released>>

\* PUT / PATCH of a relation: save() -> ModelSerializer.update(): the validated
\* fields are set on the instance and the instance is saved
OIOUpdateSave(r) ==
    /\ req[r].pc = "valid"
    /\ req[r].op = "oio-update"
    /\ LET id == req[r].obj
           row == OIO_update(req[r].instance, OIO_to_internal_value(req[r].attrs))
       IN IF unique_together(oio, id, row)
          THEN /\ Answer(r, OIO_Answered(req[r], IntegrityError, EmptyDict))
               /\ UNCHANGED oio
          ELSE /\ oio' = [oio EXCEPT ![id] = row]
               /\ Answer(r, OIO_Answered(req[r], {}, row))
    /\ UNCHANGED <<eio, gebruiksrechten, nextToken, released>>

\* ------------------------------------------------------ specification
\* Spec: the lock protocol and the indicator under every interleaving of the
\* requests' steps; the payloads carry the lock and the indicator only
LockNested == {EmptyDict}

LockZtc == {ZtcError, "openbaar"}

Init ==
    /\ eio = EmptyDict
    /\ oio = EmptyDict
    /\ gebruiksrechten = {}
    /\ req = [r \in Req |-> Idle]
    /\ nextToken = 1
    /\ released = [o \in Obj |-> {}]
    /\ response = Unobserved

Next ==
    \/ \E r \in Req, attrs \in EIOAttrs : CreateValidate(r, attrs)
    \/ \E r \in Req, nested \in LockNested, ztc \in LockZtc : CreateInsert(r, nested, ztc)
    \/ \E r \in Req : CreateSave(r)
    \/ \E r \in Req, o \in Obj, attrs \in EIOAttrs : UpdateValidate(r, o, attrs)
    \/ \E r \in Req, nested \in LockNested : UpdateSave(r, nested)
    \/ \E r \in Req, o \in Obj : LockValidate(r, o)
    \/ \E r \in Req : LockSave(r)
    \/ \E r \in Req, o \in Obj, attrs \in LockAttrs, force_unlock \in BOOLEAN :
           UnlockValidate(r, o, attrs, force_unlock)
    \/ \E r \in Req : UnlockSave(r)
    \/ \E o \in Obj : GebruiksrechtenCreate(o)

Spec == Init /\ [][Next]_vars

\* SpecApi: as Spec, with a document addressed only by the url that the answer
\* to its create gives out: no request reaches a document whose create is
\* still between its insert and its save
Answered_create(o) ==
    o \in DOMAIN eio /\ \A r \in Req : ~(req[r].pc = "inserted" /\ req[r].obj = o)

NextApi ==
    \/ \E r \in Req, attrs \in EIOAttrs : CreateValidate(r, attrs)
    \/ \E r \in Req, nested \in LockNested, ztc \in LockZtc : CreateInsert(r, nested, ztc)
    \/ \E r \in Req : CreateSave(r)
    \/ \E r \in Req, o \in Obj, attrs \in EIOAttrs :
           Answered_create(o) /\ UpdateValidate(r, o, attrs)
    \/ \E r \in Req, nested \in LockNested : UpdateSave(r, nested)
    \/ \E r \in Req, o \in Obj : Answered_create(o) /\ LockValidate(r, o)
    \/ \E r \in Req : LockSave(r)
    \/ \E r \in Req, o \in Obj, attrs \in LockAttrs, force_unlock \in BOOLEAN :
           Answered_create(o) /\ UnlockValidate(r, o, attrs, force_unlock)
    \/ \E r \in Req : UnlockSave(r)
    \/ \E o \in Obj : Answered_create(o) /\ GebruiksrechtenCreate(o)

SpecApi == Init /\ [][NextApi]_vars

\* SpecSeq: one request at a time, each served to its answer before the next
\* is taken, with the answers recorded
Quiet == \A r \in Req : req[r].pc = "idle"

InitSeq ==
    /\ eio = EmptyDict
    /\ oio = EmptyDict
    /\ gebruiksrechten = {}
    /\ req = [r \in Req |-> Idle]
    /\ nextToken = 1
    /\ released = [o \in Obj |-> {}]
    /\ response = Idle

NextSeq ==
    \/ \E r \in Req, attrs \in EIOAttrs : Quiet /\ CreateValidate(r, attrs)
    \/ \E r \in Req, nested \in LockNested, ztc \in LockZtc : CreateInsert(r, nested, ztc)
    \/ \E r \in Req : CreateSave(r)
    \/ \E r \in Req, o \in Obj, attrs \in EIOAttrs : Quiet /\ UpdateValidate(r, o, attrs)
    \/ \E r \in Req, nested \in LockNested : UpdateSave(r, nested)
    \/ \E r \in Req, o \in Obj : Quiet /\ LockValidate(r, o)
    \/ \E r \in Req : LockSave(r)
    \/ \E r \in Req, o \in Obj, attrs \in LockAttrs, force_unlock \in BOOLEAN :
           Quiet /\ UnlockValidate(r, o, attrs, force_unlock)
    \/ \E r \in Req : UnlockSave(r)
    \/ \E o \in Obj : Quiet /\ GebruiksrechtenCreate(o)

SpecSeq == InitSeq /\ [][NextSeq]_vars

\* SpecNested: as SpecSeq, with payloads that also carry the nested groups and
\* the classification, and a lookup that gives any classification
NestedZtc == {ZtcError} \cup VertrouwelijkheidValues

NextNested ==
    \/ \E r \in Req, attrs \in EIOAttrs : Quiet /\ CreateValidate(r, attrs)
    \/ \E r \in Req, nested \in NestedAttrs, ztc \in NestedZtc : CreateInsert(r, nested, ztc)
    \/ \E r \in Req : CreateSave(r)
    \/ \E r \in Req, o \in Obj, attrs \in EIOAttrs : Quiet /\ UpdateValidate(r, o, attrs)
    \/ \E r \in Req, nested \in NestedAttrs : UpdateSave(r, nested)
    \/ \E r \in Req, o \in Obj : Quiet /\ LockValidate(r, o)
    \/ \E r \in Req : LockSave(r)
    \/ \E r \in Req, o \in Obj, attrs \in LockAttrs, force_unlock \in BOOLEAN :
           Quiet /\ UnlockValidate(r, o, attrs, force_unlock)
    \/ \E r \in Req : UnlockSave(r)
    \/ \E o \in Obj : Quiet /\ GebruiksrechtenCreate(o)

SpecNested == InitSeq /\ [][NextNested]_vars

\* SpecOio: the relations of the documents, with the answers recorded. The
\* creates of relations run under every interleaving with each other; every
\* other request is served alone
OnlyCreates == {r \in Req : req[r].pc # "idle"} \subseteq InFlight("oio-create")

NextOio ==
    \/ \E r \in Req : Quiet /\ CreateValidate(r, EmptyDict)
    \/ \E r \in Req, ztc \in LockZtc : CreateInsert(r, EmptyDict, ztc)
    \/ \E r \in Req : CreateSave(r)
    \/ \E r \in Req, o \in Obj : Quiet /\ LockValidate(r, o)
    \/ \E r \in Req : LockSave(r)
    \/ \E r \in Req, attrs \in OIOAttrs, policy_ok \in BOOLEAN :
           OnlyCreates /\ OIOCreateValidate(r, attrs, policy_ok)
    \/ \E r \in Req, aard_relatie \in AardRelaties : OIOCreateInsert(r, aard_relatie)
    \/ \E r \in Req, id \in 1..MaxOio, attrs \in OIOAttrs, policy_ok \in BOOLEAN :
           Quiet /\ OIOUpdateValidate(r, id, attrs, policy_ok)
    \/ \E r \in Req : OIOUpdateSave(r)

SpecOio == InitSeq /\ [][NextOio]_vars

\* --------------------------------------------------------------- claims
\* what a payload's lock is to validate(): valid_attrs.get('lock', '')
Supplied(attrs) == Get(attrs, "lock", NoLock)

\* C1: the lock action is a compare-and-swap: a lock request stores its token
\* only on an object whose stored lock is empty at that moment, so of the lock
\* requests on an object with no unlock in between exactly one succeeds.
C1_AcquireIsCompareAndSwap ==
    [][\A r \in Req : LockSave(r) => eio[req[r].obj].lock = NoLock]_vars

\* C2: an update writes only at a moment when the object's stored lock is
\* non-empty and equal to the lock the update presented.
C2_UpdateWritesUnderItsLock ==
    [][\A r \in Req, nested \in NestedAttrs :
          UpdateSave(r, nested) =>
              /\ eio[req[r].obj].lock # NoLock
              /\ eio[req[r].obj].lock = Supplied(req[r].attrs)]_vars

\* C3: every lock action stores a token that was never issued before, and a
\* token that was released is never the object's stored lock again.
C3_TokensNeverReused ==
    [][/\ \A r \in Req : LockSave(r) => eio'[req[r].obj].lock \notin Issued
       /\ \A o \in DOMAIN eio' : eio'[o].lock \notin released'[o]]_vars

\* what the field validator of indicatie_gebruiksrecht is to answer on an
\* update, for a payload and the existence of Gebruiksrechten rows
IndicatieError(attrs, exists) ==
    IF "indicatie_gebruiksrecht" \notin DOMAIN attrs THEN "ok"
    ELSE IF attrs.indicatie_gebruiksrecht = "True"
    THEN IF exists THEN "ok" ELSE "missing-gebruiksrechten"
    ELSE IF exists THEN "existing-gebruiksrechten" ELSE "ok"

\* the error of a payload whose fields are checked before its lock
FieldsThen(attrs, exists, error) ==
    IF IndicatieError(attrs, exists) # "ok" THEN IndicatieError(attrs, exists)
    ELSE error

\* the step answers a request of this kind
Answers(op) == response'.pc = "done" /\ response'.op = op

\* the step answers with this error and leaves the tables as they were
Rejects(error) ==
    /\ response'.result = error
    /\ response'.saved = EmptyDict
    /\ eio' = eio
    /\ gebruiksrechten' = gebruiksrechten

\* the last step answered an update on a locked document that came with
\* another lock than the stored one
MismatchedUpdate ==
    /\ response.pc = "done"
    /\ response.op = "update"
    /\ response.instance.lock # NoLock
    /\ Supplied(response.attrs) # response.instance.lock

\* C4 as claimed: an update whose lock differs from the stored lock fails with
\* incorrect-lock-id, whatever else the payload holds.
C4_MismatchIsLockMismatch ==
    MismatchedUpdate => response.result = "incorrect-lock-id"

\* C4: an update whose lock differs from the stored lock is always rejected and
\* writes nothing: with the indicator's error when the payload's
\* indicatie_gebruiksrecht fails its field check, which runs first, and with
\* incorrect-lock-id otherwise.
C4_MismatchIsRejected ==
    MismatchedUpdate =>
        /\ response.saved = EmptyDict
        /\ eio[response.obj].lock = response.instance.lock
        /\ response.result =
             FieldsThen(response.attrs, response.exists, "incorrect-lock-id")

C4_Witness ==
    /\ MismatchedUpdate
    /\ Supplied(response.attrs) # NoLock
    /\ response.result = "missing-gebruiksrechten"

\* C5 as claimed: an update of a document whose stored lock is empty fails with
\* unlocked, whatever the payload, and writes nothing.
C5_UnlockedIsUnlocked ==
    [][(Answers("update") /\ response'.instance.lock = NoLock)
          => Rejects("unlocked")]_vars

\* C5: an update of a document whose stored lock is empty is always rejected
\* and writes nothing, whatever lock it presents: with the indicator's error
\* when the payload's indicatie_gebruiksrecht fails its field check, and with
\* unlocked otherwise.
C5_UnlockedIsRejected ==
    [][(Answers("update") /\ response'.instance.lock = NoLock)
          => Rejects(FieldsThen(response'.attrs, response'.exists, "unlocked"))]_vars

C5_Witness ==
    /\ response.pc = "done"
    /\ response.op = "update"
    /\ response.instance.lock = NoLock
    /\ Supplied(response.attrs) # NoLock
    /\ "indicatie_gebruiksrecht" \in DOMAIN response.attrs
    /\ response.result = "unlocked"

\* C6 as claimed: a create with a non-empty lock fails with lock-in-create,
\* whatever its other attributes.
C6_LockInCreate ==
    [][(Answers("create") /\ Supplied(response'.attrs) # NoLock)
          => Rejects("lock-in-create")]_vars

\* C6: a create with a non-empty lock is always rejected and persists nothing:
\* with missing-gebruiksrechten when it also sets the indicator, whose field
\* check runs first, and with lock-in-create otherwise; and every document a
\* create persists is unlocked, when inserted and when saved.
C6_CreateStartsUnlocked ==
    [][/\ (Answers("create") /\ Supplied(response'.attrs) # NoLock)
             => Rejects(IF Get(response'.attrs, "indicatie_gebruiksrecht", "None") = "True"
                        THEN "missing-gebruiksrechten"
                        ELSE "lock-in-create")
       /\ \A o \in DOMAIN eio' \ DOMAIN eio : eio'[o].lock = NoLock
       /\ (Answers("create") /\ response'.result = "ok")
             => eio'[response'.obj].lock = NoLock]_vars

C6_Witness ==
    /\ response.pc = "done"
    /\ response.op = "create"
    /\ Supplied(response.attrs) # NoLock
    /\ "indicatie_gebruiksrecht" \in DOMAIN response.attrs
    /\ response.result = "lock-in-create"
    /\ eio = EmptyDict

\* C7: on a document locked with a token, an unlock without force_unlock and
\* with any other lock, or none, is rejected with incorrect-lock-id and the
\* document stays locked with its token; an unlock with force_unlock goes
\* through with any lock, or none, and leaves the document unlocked.
C7_Release ==
    [][(Answers("unlock") /\ response'.instance.lock # NoLock) =>
          /\ (~response'.force_unlock
                /\ Supplied(response'.attrs) # response'.instance.lock)
                => /\ Rejects("incorrect-lock-id")
                   /\ eio'[response'.obj].lock = response'.instance.lock
          /\ response'.force_unlock
                => /\ response'.result = "ok"
                   /\ eio'[response'.obj].lock = NoLock]_vars

C7_Witness ==
    /\ response.pc = "done"
    /\ response.op = "unlock"
    /\ response.force_unlock
    /\ response.instance.lock # NoLock
    /\ Supplied(response.attrs) \notin {NoLock, response.instance.lock}
    /\ response.result = "ok"
    /\ eio[response.obj].lock = NoLock

\* the lifecycle of a document's lock up to its release, requests served one
\* at a time: a created document is unlocked; a lock on an unlocked document
\* stores and returns a token; an update with the stored lock and fields that
\* pass their checks is saved and leaves the lock; an unlock with the stored
\* lock empties it
LifecycleToRelease ==
    /\ \A o \in DOMAIN eio' \ DOMAIN eio : eio'[o].lock = NoLock
    /\ (Answers("create") /\ response'.result = "ok")
          => eio'[response'.obj].lock = NoLock
    /\ (Answers("lock") /\ response'.instance.lock = NoLock)
          => /\ response'.result = "ok"
             /\ response'.saved.lock \in Token
             /\ eio'[response'.obj].lock = response'.saved.lock
    /\ (/\ Answers("update")
        /\ response'.instance.lock # NoLock
        /\ Supplied(response'.attrs) = response'.instance.lock
        /\ IndicatieError(response'.attrs, response'.exists) = "ok")
          => /\ response'.result = "ok"
             /\ eio'[response'.obj].lock = response'.instance.lock
    /\ (/\ Answers("unlock")
        /\ ~response'.force_unlock
        /\ response'.instance.lock # NoLock
        /\ Supplied(response'.attrs) = response'.instance.lock)
          => /\ response'.result = "ok"
             /\ eio'[response'.obj].lock = NoLock
             /\ response'.instance.lock \in released'[response'.obj]

\* the step answers an update that came with a released token, on a document
\* unlocked since
UpdateAfterRelease ==
    /\ Answers("update")
    /\ response'.instance.lock = NoLock
    /\ Supplied(response'.attrs) \in released[response'.obj]

\* C8 as claimed: create leaves the document unlocked, lock returns a token,
\* an update with it succeeds, an unlock with it succeeds, and from then on
\* every update with that token fails with unlocked until the next lock.
C8_LifecycleUnlocked ==
    [][/\ LifecycleToRelease
       /\ UpdateAfterRelease => Rejects("unlocked")]_vars

\* C8: create leaves the document unlocked, lock returns a token, an update
\* with it succeeds when its indicatie_gebruiksrecht passes the field check, an
\* unlock with it succeeds, and from then on every update with that token is
\* rejected until the next lock: with unlocked, or with the indicator's error
\* when the payload's indicatie_gebruiksrecht fails its field check.
C8_Lifecycle ==
    [][/\ LifecycleToRelease
       /\ UpdateAfterRelease
             => Rejects(FieldsThen(response'.attrs, response'.exists, "unlocked"))]_vars

C8_Witness ==
    /\ response.pc = "done"
    /\ response.op = "update"
    /\ Supplied(response.attrs) \in released[response.obj]
    /\ response.instance.lock = NoLock
    /\ eio[response.obj].lock = NoLock
    /\ response.result = "unlocked"

\* C9: in every state, under every interleaving, a document's
\* indicatie_gebruiksrecht is true only if a Gebruiksrechten row references it.
C9_IndicatieOnlyWithGebruiksrechten ==
    \A o \in DOMAIN eio :
        eio[o].indicatie_gebruiksrecht = "True" => gebruiksrechten_exists(o)

C9_Witness ==
    \E r \in Req :
        /\ req[r].pc = "valid"
        /\ req[r].op = "update"
        /\ Get(req[r].attrs, "indicatie_gebruiksrecht", "None") = "True"
        /\ eio[req[r].obj].indicatie_gebruiksrecht = "True"
        /\ gebruiksrechten_exists(req[r].obj)

\* C10: in every state, under every interleaving, a document that a
\* Gebruiksrechten row references has indicatie_gebruiksrecht true.
C10_GebruiksrechtenImplyIndicatie ==
    \A o \in DOMAIN eio :
        gebruiksrechten_exists(o) => eio[o].indicatie_gebruiksrecht = "True"

\* C11: the indicator never goes from not true to true on a create or an
\* update: a created document does not have it true, and on a stored document
\* it becomes true only in the step that creates a Gebruiksrechten row for it.
C11_IndicatieSetOnlyByGebruiksrechten ==
    [][\A o \in DOMAIN eio' :
          eio'[o].indicatie_gebruiksrecht = "True" =>
              IF o \in DOMAIN eio
              THEN \/ eio[o].indicatie_gebruiksrecht = "True"
                   \/ GebruiksrechtenCreate(o)
              ELSE FALSE]_vars

\* the step answers a create or an update whose payload sets the indicator
\* to one of these values
AnswersIndicatie(op, values) ==
    /\ Answers(op)
    /\ "indicatie_gebruiksrecht" \in DOMAIN response'.attrs
    /\ response'.attrs.indicatie_gebruiksrecht \in values

\* C12: a create that sets indicatie_gebruiksrecht to true, and an update that
\* sets it to true on a document no Gebruiksrechten row references, is always
\* rejected with missing-gebruiksrechten, whatever its lock, and writes nothing.
C12_TrueWithoutGebruiksrechten ==
    [][/\ AnswersIndicatie("create", {"True"})
             => Rejects("missing-gebruiksrechten")
       /\ (/\ AnswersIndicatie("update", {"True"})
           /\ ~gebruiksrechten_exists(response'.obj))
             => Rejects("missing-gebruiksrechten")]_vars

C12_Witness ==
    /\ response.pc = "done"
    /\ response.op = "update"
    /\ response.instance.lock # NoLock
    /\ Supplied(response.attrs) = response.instance.lock
    /\ Get(response.attrs, "indicatie_gebruiksrecht", "None") = "True"
    /\ ~gebruiksrechten_exists(response.obj)
    /\ response.result = "missing-gebruiksrechten"
    /\ eio[response.obj].indicatie_gebruiksrecht # "True"

\* C13: an update that sets indicatie_gebruiksrecht to false or to unknown on a
\* document that a Gebruiksrechten row references is rejected when validated,
\* and no update writes such a value at a moment when a row references the
\* document.
C13_NotTrueWithGebruiksrechten ==
    [][\A r \in Req :
          /\ \A o \in DOMAIN eio, attrs \in EIOAttrs :
                (/\ Get(attrs, "indicatie_gebruiksrecht", "True") # "True"
                 /\ gebruiksrechten_exists(o)
                 /\ UpdateValidate(r, o, attrs))
                   => req'[r].pc = "idle" /\ eio' = eio
          /\ \A nested \in NestedAttrs :
                (/\ req[r].pc = "valid"
                 /\ req[r].op = "update"
                 /\ Get(req[r].attrs, "indicatie_gebruiksrecht", "True") # "True"
                 /\ gebruiksrechten_exists(req[r].obj)
                 /\ UpdateSave(r, nested))
                   => FALSE]_vars

\* C14: an update leaves every field that its payload does not specify as it
\* was stored before the update, integriteit and ondertekening included.
C14_UnspecifiedFieldsUntouched ==
    [][\A r \in Req, nested \in NestedAttrs :
          (/\ req[r].pc = "valid"
           /\ req[r].op = "update"
           /\ UpdateSave(r, nested))
             => \A field \in DOMAIN eio[req[r].obj] :
                    field \notin DOMAIN (req[r].attrs @@ nested)
                        => eio'[req[r].obj][field] = eio[req[r].obj][field]]_vars

\* no two relations of the table hold the same (informatieobject, object)
UniqueRelations(table) ==
    \A i, j \in DOMAIN table :
        (/\ table[i].informatieobject = table[j].informatieobject
         /\ table[i].object = table[j].object) => i = j

\* the step answers a relation create whose pair a stored relation holds
AnswersDuplicate ==
    /\ Answers("oio-create")
    /\ unique_together(oio, 0, response'.attrs)

\* C15 as claimed: no two relations share their (informatieobject, object), and
\* a create for a stored pair fails with the error of the uniqueness validator
\* and stores nothing, also when the pair was stored after its validation.
C15_DuplicateRelation ==
    [][/\ UniqueRelations(oio')
       /\ AnswersDuplicate
             => /\ <<"non_field_errors", "unique">> \in response'.errors
                /\ oio' = oio]_vars

\* C15: no two relations share their (informatieobject, object), and a create
\* for a stored pair stores nothing: it fails with the error of the uniqueness
\* validator when the pair was stored at its validation, and with the error of
\* the table's unique constraint when the pair was stored after it.
C15_UniqueRelations ==
    [][/\ UniqueRelations(oio')
       /\ AnswersDuplicate
             => /\ oio' = oio
                /\ IF response'.exists
                   THEN <<"non_field_errors", "unique">> \in response'.errors
                   ELSE response'.errors = IntegrityError]_vars

C15_Witness ==
    /\ response.pc = "done"
    /\ response.op = "oio-create"
    /\ ~response.exists
    /\ response.errors = IntegrityError
    /\ unique_together(oio, 0, response.attrs)
    /\ Cardinality(DOMAIN oio) = 1

\* the answered update of a relation names this field with another value than
\* the stored one
Modifies(field) ==
    /\ Answers("oio-update")
    /\ field \in DOMAIN response'.attrs
    /\ response'.attrs[field] # response'.instance[field]

\* C16 as claimed: an update of a relation that names object, object_type or
\* aard_relatie with another value fails with wijzigen-niet-toegelaten and
\* leaves the relation as it was, whatever the lock of the document.
C16_ImmutableFieldModified ==
    [][\A field \in {"object", "object_type", "aard_relatie"} :
          Modifies(field)
             => /\ \E e \in response'.errors : e[2] = WijzigenNietToegelaten
                /\ oio' = oio]_vars

\* C16: an update of a relation that names object or object_type with another
\* value fails with wijzigen-niet-toegelaten on that field and leaves the
\* relation as it was, whatever the lock of the document; an aard_relatie in
\* the payload is not read, and no update changes the object, the object_type
\* or the aard_relatie of a relation.
C16_ImmutableFields ==
    [][/\ \A field \in {"object", "object_type"} :
             Modifies(field)
                => /\ <<field, WijzigenNietToegelaten>> \in response'.errors
                   /\ oio' = oio
       /\ \A id \in DOMAIN oio, field \in {"object", "object_type", "aard_relatie"} :
             oio'[id][field] = oio[id][field]]_vars

C16_Witness ==
    /\ response.pc = "done"
    /\ response.op = "oio-update"
    /\ "object_type" \in DOMAIN response.attrs
    /\ response.attrs.object_type # response.instance.object_type
    /\ <<"object_type", WijzigenNietToegelaten>> \in response.errors
    /\ eio[response.instance.informatieobject].lock # NoLock
    /\ oio[response.obj] = response.instance

\* C17: a create persists the document together with the integriteit and the
\* ondertekening of its payload: in no state does the table hold a document of
\* a create without them, and a create whose lookup fails persists nothing.
C17_CreateIsAtomic ==
    [][/\ \A r \in Req :
             req'[r].pc = "inserted" =>
                 /\ eio'[req'[r].obj].integriteit =
                        Get(req'[r].attrs, "integriteit", "None")
                 /\ eio'[req'[r].obj].ondertekening =
                        Get(req'[r].attrs, "ondertekening", "None")
       /\ (Answers("create") /\ response'.result = ZtcError) => eio' = eio]_vars

\* C18: a create that reaches create() without a vertrouwelijkheidaanduiding
\* looks the informatieobjecttype up and stores its classification, or fails
\* and stores nothing when the lookup fails; a create with a
\* vertrouwelijkheidaanduiding stores it without a lookup; a create rejected by
\* validation makes no lookup; an update makes no lookup and leaves the stored
\* classification when its payload has none.
C18_LookupOnlyOnCreateWithout ==
    [][/\ \A r \in Req, nested \in NestedAttrs, ztc \in NestedZtc :
             (/\ req[r].pc = "valid"
              /\ req[r].op = "create"
              /\ CreateInsert(r, nested, ztc))
                => IF "vertrouwelijkheidaanduiding" \in DOMAIN nested
                   THEN /\ req'[r].pc = "inserted"
                        /\ req'[r].informatieobjecttype = Unset
                        /\ eio'[req'[r].obj].vertrouwelijkheidaanduiding =
                               nested.vertrouwelijkheidaanduiding
                   ELSE IF ztc = ZtcError
                   THEN /\ response'.result = ZtcError
                        /\ eio' = eio
                   ELSE /\ req'[r].pc = "inserted"
                        /\ req'[r].informatieobjecttype = ztc
                        /\ eio'[req'[r].obj].vertrouwelijkheidaanduiding = ztc
       /\ \A r \in Req, nested \in NestedAttrs :
             (/\ req[r].pc = "valid"
              /\ req[r].op = "update"
              /\ UpdateSave(r, nested))
                => /\ response'.informatieobjecttype = Unset
                   /\ "vertrouwelijkheidaanduiding" \notin DOMAIN nested
                         => eio'[req[r].obj].vertrouwelijkheidaanduiding =
                                eio[req[r].obj].vertrouwelijkheidaanduiding
       /\ (/\ Answers("create")
           /\ response'.result \in {"lock-in-create", "missing-gebruiksrechten"})
             => response'.informatieobjecttype = Unset /\ eio' = eio]_vars

C18_Witness ==
    \E r \in Req :
        /\ req[r].pc = "inserted"
        /\ req[r].op = "create"
        /\ "vertrouwelijkheidaanduiding" \notin DOMAIN req[r].attrs
        /\ req[r].informatieobjecttype = "geheim"
        /\ eio[req[r].obj].vertrouwelijkheidaanduiding = "geheim"

\* the codes of the ValidationErrors of the three serializers of a document
ValidationErrors ==
    {"existing-lock", "incorrect-lock-id", "unlocked", "lock-in-create",
     "missing-gebruiksrechten", "existing-gebruiksrechten"}

\* C19: a request answered with a validation error (existing-lock on a lock,
\* incorrect-lock-id on an unlock, unlocked, incorrect-lock-id,
\* missing-gebruiksrechten or existing-gebruiksrechten on an update,
\* lock-in-create or missing-gebruiksrechten on a create) has written nothing:
\* every row of every table is as it was before the request.
C19_RejectedWritesNothing ==
    [][(response'.pc = "done" /\ response'.result \in ValidationErrors)
          => /\ response'.saved = EmptyDict
             /\ eio' = eio
             /\ gebruiksrechten' = gebruiksrechten
             /\ oio' = oio]_vars

C19_Witness ==
    /\ response.pc = "done"
    /\ response.op = "lock"
    /\ response.result = "existing-lock"
    /\ eio[response.obj].lock # NoLock
    /\ eio[response.obj].integriteit = "sha"
    /\ eio[response.obj].ondertekening = "sig"

\* C20: an update leaves the stored lock as it was right before its write, and
\* the stored lock changes only when a lock request stores the token it drew
\* or an unlock request empties it.
C20_LockChangedOnlyByLockAndUnlock ==
    [][/\ \A r \in Req, nested \in NestedAttrs :
             (/\ req[r].pc = "valid"
              /\ req[r].op = "update"
              /\ UpdateSave(r, nested))
                => eio'[req[r].obj].lock = eio[req[r].obj].lock
       /\ \A o \in DOMAIN eio :
             eio'[o].lock # eio[o].lock =>
                 \E r \in Req :
                     /\ req[r].pc = "valid"
                     /\ req[r].obj = o
                     /\ req'[r].pc = "idle"
                     /\ IF req[r].op = "lock" THEN eio'[o].lock = uuid4
                        ELSE req[r].op = "unlock" /\ eio'[o].lock = NoLock]_vars

====
